---- MODULE Spec2Model ----
(***************************************************************************)
(* BlobChangeFeedReader (azstorage_blob_changefeed/base.py): a walk over   *)
(* the storage change feed.  load_data -> run -> fetch_changes pages the   *)
(* feed and keeps the events that pass the container filter; run then      *)
(* hands every kept event to process_event, which dispatches on eventType  *)
(* to the _handle_blob_* methods; the upsert handlers call _download_blob. *)
(*                                                                         *)
(* Optional values of the Python code are sequences of length at most one: *)
(* <<>> is None, <<v>> is the value v.  Strings are TLA+ strings.          *)
(***************************************************************************)
EXTENDS Integers, Sequences, FiniteSets, TLC

VARIABLES
    pc,        \* position of the caller's invocation
    reader,    \* the fields of the BlobChangeFeedReader instance
    args,      \* the keyword arguments of the running walk
    request,   \* what fetch_changes asked of the change feed client
    cursor,    \* the page iterator: feed position of the next page
    fetched,   \* feed positions requested from the iterator, in order
    consumed,  \* continuation markers of the pages consumed, in order
    seen,      \* every event met by the inner loop, with the filter's verdict
    events,    \* the local list `events` of fetch_changes / run
    i,         \* index of run's loop over events
    handled,   \* process_event dispatches made by run, in order
    calls,     \* attempts to call _download_blob, in order
    dl,        \* the frame of a running _download_blob
    open,      \* handles and transient files currently open
    io,        \* calls made to the object store by _download_blob, in order
    result     \* what the invocation gave its caller

vars == <<pc, reader, args, request, cursor, fetched, consumed, seen, events,
          i, handled, calls, dl, open, io, result>>

(***************************************************************************)
(* Bounds of the model.                                                    *)
(***************************************************************************)
MaxPages == 2
MaxEvents == 3
MaxDocs == 1

None == <<>>
Some(v) == <<v>>

\* a test for None alone, as `is not None` would make
TruthyNotNone(opt) == opt # None

\* Python truthiness of an Optional[str]: None and "" are falsy.
Truthy(opt) == opt # None /\ opt[1] # ""

\* dict.get(key, default)
Get(d, key, default) == IF key \in DOMAIN d THEN d[key] ELSE default

(***************************************************************************)
(* re.search(r"/containers/([^/]+)/blobs/(.+)", subject)                   *)
(***************************************************************************)
Ch(s, k) == SubSeq(s, k, k)

IsAt(s, k, lit) ==
    /\ k + Len(lit) - 1 <= Len(s)
    /\ SubSeq(s, k, k + Len(lit) - 1) = lit

\* first index >= k that does not continue a run of [^/]
RunEnd(s, k) ==
    IF \E m \in k..Len(s) : Ch(s, m) = "/"
    THEN CHOOSE m \in k..Len(s) :
            /\ Ch(s, m) = "/"
            /\ \A n \in k..(m - 1) : Ch(s, n) # "/"
    ELSE Len(s) + 1

\* last index of the run of `.` (anything but a newline) starting at k
DotEnd(s, k) ==
    IF \E m \in k..Len(s) : Ch(s, m) = "\n"
    THEN (CHOOSE m \in k..Len(s) :
            /\ Ch(s, m) = "\n"
            /\ \A n \in k..(m - 1) : Ch(s, n) # "\n") - 1
    ELSE Len(s)

ContainersLit == "/containers/"
BlobsLit == "/blobs/"

MatchAt(s, k) ==
    /\ IsAt(s, k, ContainersLit)
    /\ LET c == k + Len(ContainersLit)
           e == RunEnd(s, c)
       IN  /\ e > c
           /\ IsAt(s, e, BlobsLit)
           /\ DotEnd(s, e + Len(BlobsLit)) >= e + Len(BlobsLit)

\* the match object: None, or the two groups of the leftmost match
SubjectMatch(s) ==
    IF \E k \in 1..Len(s) : MatchAt(s, k)
    THEN LET k == CHOOSE k \in 1..Len(s) :
                     MatchAt(s, k) /\ \A n \in 1..(k - 1) : ~MatchAt(s, n)
             c == k + Len(ContainersLit)
             e == RunEnd(s, c)
             b == e + Len(BlobsLit)
         IN  Some([g1 |-> SubSeq(s, c, e - 1), g2 |-> SubSeq(s, b, DotEnd(s, b))])
    ELSE None

event_container_name(event) ==
    LET match == SubjectMatch(event.subject)
    IN  IF match # None THEN Some(match[1].g1) ELSE None

blob_name(event) ==
    LET match == SubjectMatch(event.subject)
    IN  IF match # None THEN Some(match[1].g2) ELSE None

\* a filter that lets every event through
FilteredOutNever(container_name, event) == FALSE

\* the guard of `continue` in the inner loop of fetch_changes
FilteredOut(container_name, event) ==
    Truthy(container_name) /\ event_container_name(event) # container_name

(***************************************************************************)
(* The change feed client (azure.storage.blob.changefeed) is a collaborator *)
(* outside this repository: feed positions are 1, 2, ...; the page at      *)
(* position p was written at hour p and carries the continuation marker    *)
(* that names position p + 1.                                              *)
(***************************************************************************)
TokenAt(p) == "tok-" \o ToString(p)
MarkerOf(p) == TokenAt(p + 1)
MaxPos == MaxPages + 4
\* a string that names no position is given position 0
TokenPos(t) ==
    IF \E p \in 1..MaxPos : TokenAt(p) = t
    THEN CHOOSE p \in 1..MaxPos : TokenAt(p) = t
    ELSE 0
TimePos(t) == t

\* where list_changes(...).by_page(...) starts for a request
FirstPosition(req) ==
    IF req.continuation_token # None THEN TokenPos(req.continuation_token[1])
    ELSE IF req.start_time # None THEN TimePos(req.start_time[1])
    ELSE 1

(***************************************************************************)
(* Inputs: the events a page may hold and the arguments of a walk.         *)
(***************************************************************************)
EvCreatedC1 == [eventType |-> "BlobCreated",
                subject |-> "/containers/c1/blobs/a.txt",
                data |-> [url |-> "https://acct/c1/a.txt"]]
EvUpdatedC2 == [eventType |-> "BlobUpdated",
                subject |-> "/containers/c2/blobs/d/e.txt",
                data |-> [url |-> "https://acct/c2/d/e.txt"]]
EvDeletedC1 == [eventType |-> "BlobDeleted",
                subject |-> "/containers/c1/blobs/b.txt",
                data |-> [url |-> "https://acct/c1/b.txt"]]
\* an event of a type without a handler, for a key that holds a line feed
EvOtherC1 == [eventType |-> "BlobPropertiesUpdated",
              subject |-> "/containers/c1/blobs/r\nx.txt",
              data |-> [url |-> "https://acct/c1/r%0Ax.txt"]]
EvNoTypeC2 == [subject |-> "x/containers/c2/blobs/f"]
EvCreatedNoMatch == [eventType |-> "BlobCreated",
                     subject |-> "/blobServices/default"]

EventUniverse == {EvCreatedC1, EvUpdatedC2, EvDeletedC1, EvOtherC1,
                  EvNoTypeC2, EvCreatedNoMatch}

SeqsUpTo(S, n) == UNION {[1..k -> S] : k \in 0..n}

StartTimes == {None, Some(3)}
Tokens == {None, Some(""), Some(TokenAt(2))}
ContainerNames == {None, Some(""), Some("c1")}
DirectContainers == {"c1"}
DirectBlobs == {"a.txt", "d/e.txt"}

\* what get_blob_properties() may return: the fields of a BlobProperties
PropsPlain ==
    [name |-> "a.txt", container |-> "c1", size |-> 1024,
     content_settings |-> [content_type |-> "text/plain"],
     creation_time |-> <<2024, 3, 5>>, last_modified |-> <<2024, 3, 6>>,
     last_accessed_on |-> <<2024, 3, 7>>,
     metadata |-> [author |-> "test"], tags |-> [status |-> "draft"]]
PropsColliding ==
    [name |-> "d/e.txt", container |-> "c1", size |-> 0,
     content_settings |-> [content_type |-> "text/plain"],
     creation_time |-> <<2024, 3, 5>>, last_modified |-> <<2024, 3, 6>>,
     last_accessed_on |-> <<>>,
     metadata |-> [container |-> "mine", status |-> "final"],
     tags |-> [status |-> "draft"]]
PropertiesUniverse == {PropsPlain, PropsColliding}

\* the name of the NamedTemporaryFile, which the loader hands to file_metadata
TempFileName == "/tmp/tmpk3x9q2"

\* results_per_page of fetch_changes
results_per_page == 500

(***************************************************************************)
(* fetch_changes                                                           *)
(***************************************************************************)
\* the keyword arguments handed to list_changes(...).by_page(...)
ListChangesRequestIgnoringToken(start_time, continuation_token) ==
    [start_time |-> start_time, continuation_token |-> None]

ListChangesRequest(start_time, continuation_token) ==
    IF Truthy(continuation_token)
    THEN [start_time |-> None, continuation_token |-> continuation_token]
    ELSE [start_time |-> start_time, continuation_token |-> None]

\* the events of one page that the inner loop appends to `events`
KeptOfPage(page, container_name) ==
    SelectSeq(page, LAMBDA event : ~FilteredOut(container_name, event))

\* the inner loop's verdicts on one page, in order
SeenOfPage(page, pos, container_name) ==
    [k \in 1..Len(page) |->
        [page |-> pos, event |-> page[k],
         kept |-> ~FilteredOut(container_name, page[k])]]

NoResult == [op |-> "none", kind |-> "pending", type |-> "none", docs |-> <<>>]
Raised(op, what) == [op |-> op, kind |-> "raised", type |-> what, docs |-> <<>>]
Returned(op, type, docs) == [op |-> op, kind |-> "returned", type |-> type, docs |-> docs]

NoFrame == [container_name |-> "", blob_name |-> "", caller |-> "none",
            step |-> "none", blob_metadata |-> <<>>]

Init ==
    /\ pc = "idle"
    /\ reader = [connection_string |-> Some("UseDevelopmentStorage=true"),
                 file_extractor |-> None]
    /\ args = [start_time |-> None, continuation_token |-> None,
               container_name |-> None]
    /\ request = [start_time |-> None, continuation_token |-> None]
    /\ cursor = 0
    /\ fetched = <<>>
    /\ consumed = <<>>
    /\ seen = <<>>
    /\ events = <<>>
    /\ i = 0
    /\ handled = <<>>
    /\ calls = <<>>
    /\ dl = NoFrame
    /\ open = {}
    /\ io = <<>>
    /\ result = NoResult

\* load_data(**kwargs) -> run(...) -> fetch_changes(...) up to the page loop
LoadData ==
    /\ pc = "idle"
    /\ \E st \in StartTimes, tok \in Tokens, cn \in ContainerNames :
          /\ args' = [start_time |-> st, continuation_token |-> tok,
                      container_name |-> cn]
          /\ request' = ListChangesRequest(st, tok)
          /\ cursor' = FirstPosition(ListChangesRequest(st, tok))
    /\ pc' = "paging"
    /\ UNCHANGED <<reader, fetched, consumed, seen, events, i, handled, calls,
                   dl, open, result, io>>

\* one turn of `for page in page_iterator`, with its whole inner loop
NextPage ==
    /\ pc = "paging"
    /\ Len(fetched) < MaxPages
    /\ \E page \in SeqsUpTo(EventUniverse, MaxEvents - Len(seen)) :
          /\ Len(page) <= results_per_page
          /\ seen' = seen \o SeenOfPage(page, cursor, args.container_name)
          /\ events' = events \o KeptOfPage(page, args.container_name)
    /\ fetched' = Append(fetched, [pos |-> cursor, ok |-> TRUE])
    /\ consumed' = Append(consumed, MarkerOf(cursor))
    /\ cursor' = cursor + 1
    /\ UNCHANGED <<pc, reader, args, request, i, handled, calls, dl, open, result, io>>

\* the iterator is exhausted: `return events`, and run starts its loop
FetchChangesReturn ==
    /\ pc = "paging"
    /\ pc' = "process"
    /\ i' = 1
    /\ UNCHANGED <<reader, args, request, cursor, fetched, consumed, seen,
                   events, handled, calls, dl, open, result, io>>

\* a variant whose except clause hands back what was gathered so far
FetchChangesSwallow ==
    /\ pc = "paging"
    /\ fetched' = Append(fetched, [pos |-> cursor, ok |-> FALSE])
    /\ pc' = "process"
    /\ i' = 1
    /\ UNCHANGED <<reader, args, request, cursor, consumed, seen, events,
                   handled, calls, dl, open, result, io>>

\* the iterator raises: `except Exception: logger.error(...); raise`
FetchChangesRaise ==
    /\ pc = "paging"
    /\ fetched' = Append(fetched, [pos |-> cursor, ok |-> FALSE])
    /\ events' = <<>>
    /\ pc' = "raised"
    /\ result' = Raised("load_data", "FeedError")
    /\ UNCHANGED <<reader, args, request, cursor, consumed, seen, i, handled,
                   calls, dl, open, io>>

(***************************************************************************)
(* process_event and the _handle_blob_* methods                            *)
(***************************************************************************)
\* a dispatch that sends deletions down the download path
HandlerDeletedDownloads(event_type) ==
    IF event_type \in {"BlobCreated", "BlobDeleted"} THEN "_handle_blob_created"
    ELSE IF event_type = "BlobUpdated" THEN "_handle_blob_updated"
    ELSE "unhandled"

\* the if / elif chain of process_event
Handler(event_type) ==
    IF event_type = "BlobCreated" THEN "_handle_blob_created"
    ELSE IF event_type = "BlobDeleted" THEN "_handle_blob_deleted"
    ELSE IF event_type = "BlobUpdated" THEN "_handle_blob_updated"
    ELSE "unhandled"

\* the handlers whose body calls self._download_blob
CallsDownload(handler) ==
    handler \in {"_handle_blob_created", "_handle_blob_updated"}

\* the positional arguments the upsert handlers pass: self._download_blob(blob_url)
DownloadArgs(event) == <<Get(Get(event, "data", <<>>), "url", "Unknown")>>

\* def _download_blob(self, container_name, blob_name)
DownloadParams == <<"container_name", "blob_name">>

\* Python binds a call's positional arguments or raises TypeError
Binds(params, actuals) == Len(actuals) = Len(params)

(***************************************************************************)
(* run                                                                     *)
(***************************************************************************)
\* a variant of the loop that isolates a failing event and goes on
ProcessEventIsolating ==
    /\ pc = "process"
    /\ i <= Len(events)
    /\ LET event == events[i]
           handler == Handler(Get(event, "eventType", "Unknown"))
       IN  /\ handled' = Append(handled, [idx |-> i, event |-> event,
                                          handler |-> handler])
           /\ IF CallsDownload(handler)
              THEN calls' = Append(calls,
                        [idx |-> i, event |-> event, args |-> DownloadArgs(event),
                         docs |-> <<>>,
                         outcome |-> IF Binds(DownloadParams, DownloadArgs(event))
                                     THEN "entered" ELSE "TypeError"])
              ELSE calls' = calls
    /\ i' = i + 1
    /\ UNCHANGED <<pc, reader, args, request, cursor, fetched, consumed, seen,
                   events, dl, open, result, io>>

\* one turn of `for event in events: self.process_event(event)`
ProcessEvent ==
    /\ pc = "process"
    /\ i <= Len(events)
    /\ LET event == events[i]
           handler == Handler(Get(event, "eventType", "Unknown"))
           actuals == DownloadArgs(event)
       IN  /\ handled' = Append(handled, [idx |-> i, event |-> event,
                                          handler |-> handler])
           /\ IF ~CallsDownload(handler)
              THEN \* the handler only logs and returns None
                   /\ i' = i + 1
                   /\ UNCHANGED <<pc, calls, dl, result>>
              ELSE IF Binds(DownloadParams, actuals)
              THEN \* the call enters _download_blob
                   /\ calls' = Append(calls, [idx |-> i, event |-> event,
                                   args |-> actuals, docs |-> <<>>,
                                   outcome |-> "entered"])
                   /\ dl' = [container_name |-> actuals[1],
                             blob_name |-> actuals[2],
                             caller |-> "walk", step |-> "service",
                             blob_metadata |-> <<>>]
                   /\ pc' = "download"
                   /\ UNCHANGED <<i, result>>
              ELSE \* TypeError out of the handler, process_event, run, load_data
                   /\ calls' = Append(calls, [idx |-> i, event |-> event,
                                   args |-> actuals, docs |-> <<>>,
                                   outcome |-> "TypeError"])
                   /\ pc' = "raised"
                   /\ result' = Raised("load_data", "TypeError")
                   /\ UNCHANGED <<i, dl>>
    /\ UNCHANGED <<reader, args, request, cursor, fetched, consumed, seen,
                   events, open, io>>

\* the loop of run is over: run returns None, and load_data returns that
RunReturn ==
    /\ pc = "process"
    /\ i > Len(events)
    /\ pc' = "done"
    /\ result' = Returned("load_data", "NoneType", <<>>)
    /\ UNCHANGED <<reader, args, request, cursor, fetched, consumed, seen,
                   events, i, handled, calls, dl, open, io>>

(***************************************************************************)
(* _download_blob                                                          *)
(***************************************************************************)
\* a caller invokes reader._download_blob(container_name, blob_name) itself
CallDownloadBlob ==
    /\ pc = "idle"
    /\ \E c \in DirectContainers, b \in DirectBlobs :
          dl' = [container_name |-> c, blob_name |-> b,
                 caller |-> "direct", step |-> "service",
                 blob_metadata |-> <<>>]
    /\ pc' = "download"
    /\ UNCHANGED <<reader, args, request, cursor, fetched, consumed, seen,
                   events, i, handled, calls, open, result, io>>

\* with BlobServiceClient.from_connection_string(...) as service_client
DlOpenService ==
    /\ pc = "download" /\ dl.step = "service"
    /\ open' = open \cup {"service_client"}
    /\ dl' = [dl EXCEPT !.step = "tempfile"]
    /\ UNCHANGED <<pc, reader, args, request, cursor, fetched, consumed, seen,
                   events, i, handled, calls, result, io>>

\* get_blob_client; with tempfile.NamedTemporaryFile(delete=True) as temp_file
DlOpenTempFile ==
    /\ pc = "download" /\ dl.step = "tempfile"
    /\ open' = open \cup {"temp_file"}
    /\ dl' = [dl EXCEPT !.step = "download"]
    /\ UNCHANGED <<pc, reader, args, request, cursor, fetched, consumed, seen,
                   events, i, handled, calls, result, io>>

\* blob_client.download_blob(); readinto(temp_file); temp_file.flush()
DlDownload ==
    /\ pc = "download" /\ dl.step = "download"
    /\ io' = Append(io, [op |-> "download_blob", ok |-> TRUE, value |-> <<>>])
    /\ dl' = [dl EXCEPT !.step = "properties"]
    /\ UNCHANGED <<pc, reader, args, request, cursor, fetched, consumed, seen,
                   events, i, handled, calls, open, result>>

\* blob_metadata = blob_client.get_blob_properties()
DlProperties ==
    /\ pc = "download" /\ dl.step = "properties"
    /\ \E props \in PropertiesUniverse :
          /\ io' = Append(io, [op |-> "get_blob_properties", ok |-> TRUE,
                               value |-> props])
          /\ dl' = [dl EXCEPT !.step = "load", !.blob_metadata = props]
    /\ UNCHANGED <<pc, reader, args, request, cursor, fetched, consumed, seen,
                   events, i, handled, calls, open, result>>

\* def get_metadata(file_name): return blob_metadata.get(file_name, {})
get_metadata(blob_metadata, file_name) ==
    Get(blob_metadata, file_name, <<>>)

\* The generic loader is a collaborator outside the reader's source.  When it
\* accepts the open temporary file it is handed, it produces zero or more
\* records, each carrying what the metadata callback gives for the name of
\* its input; when it refuses, the load step raises (DlRaise).
LoadedDocs(n) ==
    [k \in 1..n |-> [container |-> dl.container_name, blob |-> dl.blob_name,
                     part |-> k,
                     metadata |-> get_metadata(dl.blob_metadata, TempFileName)]]

\* return loader.load_data(): both with-blocks exit and close what they opened
DlLoad ==
    /\ pc = "download" /\ dl.step = "load"
    /\ open' = open \ {"temp_file", "service_client"}
    /\ dl' = NoFrame
    /\ \E n \in 0..MaxDocs :
          IF dl.caller = "direct"
          THEN /\ pc' = "done"
               /\ result' = Returned("_download_blob", "list", LoadedDocs(n))
               /\ UNCHANGED <<i, calls>>
          ELSE \* the handler drops the returned documents; run goes on
               /\ pc' = "process"
               /\ calls' = [calls EXCEPT ![Len(calls)].docs = LoadedDocs(n),
                                         ![Len(calls)].outcome = "returned"]
               /\ i' = i + 1
               /\ result' = result
    /\ UNCHANGED <<reader, args, request, cursor, fetched, consumed, seen,
                   events, handled, io>>

\* the object store call that a step of _download_blob makes, if any
StoreCall(step) ==
    IF step = "download" THEN <<"download_blob">>
    ELSE IF step = "properties" THEN <<"get_blob_properties">>
    ELSE <<>>

\* a variant that leaves what it opened to the garbage collector
DlRaiseLeaking ==
    /\ pc = "download"
    /\ io' = io \o [k \in 1..Len(StoreCall(dl.step)) |->
                      [op |-> StoreCall(dl.step)[k], ok |-> FALSE, value |-> <<>>]]
    /\ IF dl.caller = "direct"
       THEN /\ result' = Raised("_download_blob", dl.step)
            /\ calls' = calls
       ELSE /\ result' = Raised("load_data", dl.step)
            /\ calls' = [calls EXCEPT ![Len(calls)].outcome = "raised"]
    /\ dl' = NoFrame
    /\ pc' = "raised"
    /\ UNCHANGED <<reader, args, request, cursor, fetched, consumed, seen,
                   events, i, handled, open>>

\* a variant that tries the failed step again
DlRaiseRetrying ==
    /\ pc = "download"
    /\ Len(io) < 4
    /\ StoreCall(dl.step) # <<>>
    /\ io' = Append(io, [op |-> StoreCall(dl.step)[1], ok |-> FALSE,
                         value |-> <<>>])
    /\ UNCHANGED <<pc, reader, args, request, cursor, fetched, consumed, seen,
                   events, i, handled, calls, dl, open, result>>

\* any step raises: the with-blocks exit, `except Exception: ...; raise`
DlRaise ==
    /\ pc = "download"
    /\ open' = open \ {"temp_file", "service_client"}
    /\ io' = io \o [k \in 1..Len(StoreCall(dl.step)) |->
                      [op |-> StoreCall(dl.step)[k], ok |-> FALSE, value |-> <<>>]]
    /\ IF dl.caller = "direct"
       THEN /\ result' = Raised("_download_blob", dl.step)
            /\ calls' = calls
       ELSE /\ result' = Raised("load_data", dl.step)
            /\ calls' = [calls EXCEPT ![Len(calls)].outcome = "raised"]
    /\ dl' = NoFrame
    /\ pc' = "raised"
    /\ UNCHANGED <<reader, args, request, cursor, fetched, consumed, seen,
                   events, i, handled>>

Next ==
    \/ LoadData
    \/ NextPage
    \/ FetchChangesReturn
    \/ FetchChangesRaise
    \/ ProcessEvent
    \/ RunReturn
    \/ CallDownloadBlob
    \/ DlOpenService
    \/ DlOpenTempFile
    \/ DlDownload
    \/ DlProperties
    \/ DlLoad
    \/ DlRaise

Spec == Init /\ [][Next]_vars

(***************************************************************************)
(* Vocabulary of the properties                                            *)
(***************************************************************************)
\* reading an attribute of the reader: its value, or AttributeError (ok = FALSE)
ReadAttr(obj, name) ==
    IF name \in DOMAIN obj THEN [ok |-> TRUE, value |-> obj[name]]
    ELSE [ok |-> FALSE, value |-> None]

EventType(event) == Get(event, "eventType", "Unknown")
IsUpsert(event) == EventType(event) \in {"BlobCreated", "BlobUpdated"}
InWalk == cursor > 0
WalkEnded == pc \in {"done", "raised"} /\ result.op = "load_data"
FetchFailed == \E k \in 1..Len(fetched) : ~fetched[k].ok
KeptSeen == SelectSeq(seen, LAMBDA r : r.kept)
CallFailed(c) == c.outcome \in {"TypeError", "raised"}

RECURSIVE ConcatDocs(_)
ConcatDocs(cs) ==
    IF cs = <<>> THEN <<>> ELSE Head(cs).docs \o ConcatDocs(Tail(cs))

ExpectedStart ==
    IF Truthy(args.continuation_token) THEN TokenPos(args.continuation_token[1])
    ELSE IF args.start_time # None THEN TimePos(args.start_time[1])
    ELSE 1

\* one page of two upserts, one in the filtered container and one in another
C1Scenario ==
    /\ Truthy(args.container_name)
    /\ Len(consumed) = 1
    /\ Len(seen) = 2
    /\ \A k \in 1..2 : IsUpsert(seen[k].event)
                       /\ event_container_name(seen[k].event) # None
    /\ \E k \in 1..2 :
          /\ event_container_name(seen[k].event) = args.container_name
          /\ event_container_name(seen[3 - k].event) # args.container_name

(***************************************************************************)
(* C1: with a container filter, every attempt to call _download_blob is    *)
(* for an event the filter had already passed, whose subject container     *)
(* equals the filter; no attempt is made while pages are still being       *)
(* filtered; and a walk over one page of two upserts, one in the filtered  *)
(* container and one in another, ends with exactly one attempt, for the    *)
(* matching event.                                                         *)
(***************************************************************************)
C1Theorem ==
    /\ \A k \in 1..Len(calls) :
          /\ calls[k].idx <= Len(KeptSeen)
          /\ KeptSeen[calls[k].idx].event = calls[k].event
          /\ Truthy(args.container_name) =>
                event_container_name(calls[k].event) = args.container_name
    /\ pc = "paging" => calls = <<>>
    /\ (C1Scenario /\ WalkEnded /\ ~FetchFailed) =>
          /\ Len(calls) = 1
          /\ event_container_name(calls[1].event) = args.container_name

C1Witness ==
    /\ C1Scenario /\ WalkEnded /\ ~FetchFailed
    /\ Len(calls) = 1

(***************************************************************************)
(* C2: no attempt to call _download_blob is ever made for a BlobDeleted    *)
(* event; such an event goes to _handle_blob_deleted, and a walk whose     *)
(* events are all deletions yields no document.                            *)
(***************************************************************************)
C2Theorem ==
    /\ \A k \in 1..Len(calls) : EventType(calls[k].event) # "BlobDeleted"
    /\ \A k \in 1..Len(handled) :
          EventType(handled[k].event) = "BlobDeleted" =>
             /\ handled[k].handler = "_handle_blob_deleted"
             /\ \A c \in 1..Len(calls) : calls[c].idx # handled[k].idx
    /\ (WalkEnded /\ \A k \in 1..Len(handled) :
                        EventType(handled[k].event) = "BlobDeleted") =>
          result.docs = <<>>

C2Witness ==
    /\ pc = "done" /\ result.op = "load_data"
    /\ Len(handled) >= 2
    /\ \A k \in 1..Len(handled) : EventType(handled[k].event) = "BlobDeleted"

(***************************************************************************)
(* C3: once a walk has consumed a page, reading the reader's               *)
(* continuation_token gives the marker of the last page consumed.          *)
(***************************************************************************)
C3Claim ==
    (InWalk /\ consumed # <<>>) =>
        ReadAttr(reader, "continuation_token") =
            [ok |-> TRUE, value |-> Some(consumed[Len(consumed)])]

(***************************************************************************)
(* C4: a walk that completes returns the list of the documents produced    *)
(* for the upsert events that passed the filter, concatenated in the       *)
(* order of the events.                                                    *)
(***************************************************************************)
C4Claim ==
    (pc = "done" /\ result.op = "load_data") =>
        result = Returned("load_data", "list", ConcatDocs(calls))

(***************************************************************************)
(* C5: every dispatched BlobCreated or BlobUpdated event gets exactly one  *)
(* call of _download_blob, with the container and key of its subject, that *)
(* is accepted; an event of any type other than BlobCreated, BlobUpdated   *)
(* and BlobDeleted gets no call.                                           *)
(***************************************************************************)
C5Claim ==
    \A k \in 1..Len(handled) :
        LET event == handled[k].event
            mine == {c \in 1..Len(calls) : calls[c].idx = handled[k].idx}
        IN  IF IsUpsert(event)
            THEN /\ Cardinality(mine) = 1
                 /\ \A c \in mine :
                       /\ calls[c].args =
                             event_container_name(event) \o blob_name(event)
                       /\ calls[c].outcome # "TypeError"
            ELSE mine = {}

(***************************************************************************)
(* C6: when the first page fetch succeeds and the second fails, the walk   *)
(* raises and the reader's continuation_token is the first page's marker.  *)
(***************************************************************************)
C6Claim ==
    (Len(fetched) = 2 /\ fetched[1].ok /\ ~fetched[2].ok) =>
        /\ pc = "raised"
        /\ ReadAttr(reader, "continuation_token") =
               [ok |-> TRUE, value |-> Some(consumed[1])]

(***************************************************************************)
(* C7: a failed page fetch is the last request of the walk; the walk has   *)
(* then raised to its caller, returns no list, and nothing gathered from   *)
(* the earlier pages is kept, dispatched or materialized.                  *)
(***************************************************************************)
C7Theorem ==
    FetchFailed =>
        /\ \A k \in 1..Len(fetched) : ~fetched[k].ok => k = Len(fetched)
        /\ pc = "raised"
        /\ result = Raised("load_data", "FeedError")
        /\ events = <<>>
        /\ handled = <<>>
        /\ calls = <<>>

C7Witness ==
    /\ FetchFailed
    /\ Len(consumed) >= 1
    /\ KeptSeen # <<>>
    /\ pc = "raised"

(***************************************************************************)
(* C8: when a call of _download_blob made by a walk fails, it is the last  *)
(* call of the walk, no event after the failing one is dispatched, and the *)
(* walk has raised to its caller without a document list.                  *)
(***************************************************************************)
C8Theorem ==
    \A k \in 1..Len(calls) :
        CallFailed(calls[k]) =>
            /\ k = Len(calls)
            /\ \A h \in 1..Len(handled) : handled[h].idx <= calls[k].idx
            /\ pc = "raised"
            /\ result.op = "load_data" /\ result.kind = "raised"
            /\ result.docs = <<>>

C8Witness ==
    /\ pc = "raised"
    /\ calls # <<>>
    /\ CallFailed(calls[Len(calls)])
    /\ calls[Len(calls)].idx < Len(events)
    /\ IsUpsert(events[Len(events)])

(***************************************************************************)
(* C9: with a non-empty continuation token the request carries the token   *)
(* and no start_time, and the pages requested are the consecutive ones     *)
(* from the token's position; without one they start at start_time, or at  *)
(* the first position of the feed when start_time is absent too.           *)
(***************************************************************************)
C9Theorem ==
    InWalk =>
        /\ Truthy(args.continuation_token) =>
              /\ request.start_time = None
              /\ request.continuation_token = args.continuation_token
        /\ ~Truthy(args.continuation_token) =>
              /\ request.start_time = args.start_time
              /\ request.continuation_token = None
        /\ \A k \in 1..Len(fetched) : fetched[k].pos = ExpectedStart + k - 1

C9Witness ==
    /\ Truthy(args.continuation_token)
    /\ args.start_time # None
    /\ Len(fetched) = 2
    /\ fetched[1].pos = TokenPos(args.continuation_token[1])
    /\ fetched[1].pos # TimePos(args.start_time[1])

(***************************************************************************)
(* C10: an event whose subject does not match                              *)
(* /containers/<container>/blobs/<key> is dropped with or without a        *)
(* filter: it is never dispatched, no _download_blob call is attempted     *)
(* for it, and it raises nothing.                                          *)
(***************************************************************************)
C10Claim ==
    /\ \A k \in 1..Len(handled) : SubjectMatch(handled[k].event.subject) # None
    /\ \A k \in 1..Len(calls) : SubjectMatch(calls[k].event.subject) # None

\* the properties a finished materialization fetched
FetchedProps ==
    io[CHOOSE k \in 1..Len(io) : io[k].op = "get_blob_properties" /\ io[k].ok].value

DerivedKeys == {"file_name", "file_type", "file_size", "creation_date",
                "last_modified_date", "last_accessed_date", "container"}

Materialized == result.op = "_download_blob" /\ result.kind = "returned"

(***************************************************************************)
(* C11: the metadata of every document of an object holds the seven        *)
(* derived fields, every key of the object's user metadata and every key   *)
(* of its tags; a tag's value wins over the user metadata's, which wins    *)
(* over the derived field's.                                               *)
(***************************************************************************)
C11Claim ==
    Materialized =>
        \A d \in 1..Len(result.docs) :
            LET m == result.docs[d].metadata
                p == FetchedProps
            IN  /\ DerivedKeys \subseteq DOMAIN m
                /\ \A k \in DOMAIN p.tags :
                      k \in DOMAIN m /\ m[k] = p.tags[k]
                /\ \A k \in DOMAIN p.metadata \ DOMAIN p.tags :
                      k \in DOMAIN m /\ m[k] = p.metadata[k]

(***************************************************************************)
(* C12: for every properties mapping fetched, normalizing it gives a flat  *)
(* mapping that holds the required keys, and normalizing that mapping      *)
(* again gives the same mapping.  The metadata callback, a lookup of the   *)
(* input file's name among the properties, is all the reader derives from  *)
(* the properties, so it takes the normalizer's place here.                *)
(***************************************************************************)
C12Claim ==
    \A k \in 1..Len(io) :
        (io[k].op = "get_blob_properties" /\ io[k].ok) =>
            LET once  == get_metadata(io[k].value, TempFileName)
                twice == get_metadata(once, TempFileName)
            IN  /\ DerivedKeys \subseteq DOMAIN once
                /\ twice = once

\* the pages holding events that were gathered and are not yet dispatched
PendingPages ==
    {KeptSeen[k].page : k \in (Len(handled) + 1)..Len(events)}

(***************************************************************************)
(* C13: while a walk runs, the events gathered and not yet dispatched all  *)
(* come from one page: a page is dispatched in full before the next page   *)
(* is fetched.                                                             *)
(***************************************************************************)
C13Claim ==
    pc \in {"paging", "process", "download"} => Cardinality(PendingPages) <= 1

(***************************************************************************)
(* C14: whatever a materialization opened is closed once it has ended, by  *)
(* return or by raise, so outside a running _download_blob nothing is      *)
(* open, and inside it only its own service client and transient file.     *)
(***************************************************************************)
C14Theorem ==
    /\ pc # "download" => open = {}
    /\ pc = "download" => open \subseteq {"service_client", "temp_file"}

C14Witness ==
    /\ pc = "raised"
    /\ result = Raised("_download_blob", "load")
    /\ \A k \in 1..Len(io) : io[k].ok
    /\ open = {}

\* how many object store calls of one kind were made
StoreCalls(op) == Cardinality({k \in 1..Len(io) : io[k].op = op})

\* how many times the body of _download_blob was entered: a direct call
\* enters it once; a handler's call enters it only when its arguments bind
Entered ==
    (IF dl.caller = "direct" \/ result.op = "_download_blob" THEN 1 ELSE 0)
    + Cardinality({k \in 1..Len(calls) : calls[k].outcome # "TypeError"})

(***************************************************************************)
(* C15: nothing is tried twice: no feed position is requested more than    *)
(* once, a failed page fetch is the last request of its walk, no event     *)
(* gets more than one _download_blob call, and a materialization makes at  *)
(* most one download and at most one property fetch.                       *)
(***************************************************************************)
C15Theorem ==
    /\ \A a, b \in 1..Len(fetched) : a # b => fetched[a].pos # fetched[b].pos
    /\ \A k \in 1..Len(fetched) : ~fetched[k].ok => k = Len(fetched)
    /\ \A a, b \in 1..Len(calls) : a # b => calls[a].idx # calls[b].idx
    /\ StoreCalls("download_blob") <= Entered
    /\ StoreCalls("get_blob_properties") <= Entered

C15Witness ==
    /\ pc = "raised"
    /\ result = Raised("_download_blob", "properties")
    /\ Len(io) = 2
    /\ io[1].ok /\ ~io[2].ok

\* subjects of the form /containers/C/blobs/K
FormContainers == {"c1", "c2"}
FormKeys == {"a.txt", "b.txt", "d/e.txt", "r\nx.txt"}
SubjectOf(c, k) == ContainersLit \o c \o BlobsLit \o k

(***************************************************************************)
(* C16: for a subject /containers/C/blobs/K, with C non-empty and free of  *)
(* '/', and K non-empty, the container extracted is C and the key          *)
(* extracted is K in full.                                                 *)
(***************************************************************************)
C16Claim ==
    \A n \in 1..Len(seen) : \A c \in FormContainers, k \in FormKeys :
        seen[n].event.subject = SubjectOf(c, k) =>
            /\ event_container_name(seen[n].event) = Some(c)
            /\ blob_name(seen[n].event) = Some(k)

(***************************************************************************)
(* C17: an empty continuation token counts as none: the request carries    *)
(* start_time and no token, and paging starts at start_time (or at the     *)
(* first position).  An empty container name counts as no filter: every    *)
(* event met is kept, whatever its subject.                                *)
(***************************************************************************)
C17Theorem ==
    /\ (pc \in {"paging", "process"} /\ args.continuation_token = Some("")) =>
          /\ request = [start_time |-> args.start_time,
                        continuation_token |-> None]
          /\ \A k \in 1..Len(fetched) :
                fetched[k].pos = k - 1 +
                    (IF args.start_time # None
                     THEN TimePos(args.start_time[1]) ELSE 1)
    /\ (pc \in {"paging", "process"} /\ args.container_name = Some("")) =>
          /\ \A k \in 1..Len(seen) : seen[k].kept
          /\ events = [k \in 1..Len(seen) |-> seen[k].event]

C17Witness ==
    /\ pc = "process"
    /\ args.continuation_token = Some("")
    /\ args.start_time # None
    /\ args.container_name = Some("")
    /\ fetched # <<>> /\ fetched[1].pos = TimePos(args.start_time[1])
    /\ \E a, b \in 1..Len(events) :
          /\ event_container_name(events[a]) = None
          /\ event_container_name(events[b]) = Some("c2")

====
